---- MODULE Spec2Model ----
(***************************************************************************)
(* A model of the bench_utils measurement engine: the global BenchCfg      *)
(* (bench_cfg.rs, bench_run.rs), the online accumulator BenchOut           *)
(* (bench_out.rs), the LatencyUnit conversions (latency.rs) and the        *)
(* warmup / measurement loop of bench_run_x (bench_run.rs).                *)
(*                                                                         *)
(* Time is a std::time::Duration, modelled as Rust stores it: whole        *)
(* seconds plus nanoseconds below one second.  f64 quantities are          *)
(* modelled in fixed point, as stated at each definition.                  *)
(***************************************************************************)
EXTENDS Integers, Sequences, FiniteSets, Bags, TLC

\* ------------------------------------------------------------------ bounds

\* Largest exec_count passed to bench_run_x.
MaxExec == 3

\* Cap on the loop index i of one BenchState::execute call (the loop `for i in 1..`
\* is unbounded in the code).
MaxIter == 3

\* Cap on the number of BenchCfg::set calls in one behaviour.
MaxSets == 1

\* Largest number of samples captured into an accumulator that is compared.
MaxSamples == 2

\* The width in bits the model gives to u32 (32 in the code): the cast
\* `as u32` keeps the low U32Bits bits.
U32Bits == 20

\* Largest const generic R of calibrate_busy_work_x.
MaxR == 3

\* Longest chain of with_* calls between get_bench_cfg and set.
MaxWith == 2

\* The width in bits the model gives to u64 (64 in the code): arithmetic on
\* u64 overflows at 2^U64Bits.
U64Bits == 8

\* Largest n passed to deterministic_uniform_sample below the overflow of
\* 2 * n * n.
MaxN == 5

\* The width in bits the model gives to the u64 `elapsed` of capture_data and
\* of the LatencyUnit conversions, and to its square (64 in the code):
\* elapsed.pow(2) overflows at 2^ElapsedBits, `as u64` keeps ElapsedBits bits.
ElapsedBits == 24

\* ------------------------------------------------------- program constants

DefaultWarmupMillis == 3000
DefaultSigfig == 3
DefaultStatusCalibr == 3
DefaultStatusMillis == 1000

\* calibrate_busy_work: const CALIBRATION_EFFORT and const R.
CALIBRATION_EFFORT == 100000
DefaultR == 0

NanosPerSec == 1000000000
NanosPerMilli == 1000000
NanosPerMicro == 1000
MillisPerSec == 1000
MicrosPerSec == 1000000

\* --------------------------------------------------------------- Duration

Dur(s, n) == [secs |-> s, nanos |-> n]

DurZero == Dur(0, 0)

\* Duration + Duration, carrying whole seconds.
DurAdd(a, b) ==
    LET n == a.nanos + b.nanos
    IN  Dur(a.secs + b.secs + n \div NanosPerSec, n % NanosPerSec)

DurLe(a, b) == a.secs < b.secs \/ (a.secs = b.secs /\ a.nanos <= b.nanos)

\* Instant::duration_since: later - earlier, zero when earlier is the later one.
DurationSince(later, earlier) ==
    IF DurLe(later, earlier) THEN DurZero
    ELSE IF later.nanos >= earlier.nanos
         THEN Dur(later.secs - earlier.secs, later.nanos - earlier.nanos)
         ELSE Dur(later.secs - earlier.secs - 1,
                  later.nanos + NanosPerSec - earlier.nanos)

AsNanos(d) == d.secs * NanosPerSec + d.nanos
AsMicros(d) == d.secs * MicrosPerSec + d.nanos \div NanosPerMicro
AsMillis(d) == d.secs * MillisPerSec + d.nanos \div NanosPerMilli

\* ------------------------------------------------------------ LatencyUnit

LatencyUnit == {"Milli", "Micro", "Nano"}

\* LatencyUnit::latency_as_u64: the u128 count of units cast with `as u64`,
\* which keeps the low bits.
LatencyAsU64(unit, latency) ==
    CASE unit = "Nano"  -> AsNanos(latency) % (2 ^ ElapsedBits)
      [] unit = "Micro" -> AsMicros(latency) % (2 ^ ElapsedBits)
      [] unit = "Milli" -> AsMillis(latency) % (2 ^ ElapsedBits)

\* --------------------------------------------------------------- BenchCfg

\* BenchCfg::new; static_ref always points at BENCH_CFG and is left out.
BenchCfgNew(warmup_millis, recording_unit, reporting_unit, sigfig, status_calibr, status_millis) ==
    [warmup_millis  |-> warmup_millis,
     recording_unit |-> recording_unit,
     reporting_unit |-> reporting_unit,
     sigfig         |-> sigfig,
     status_calibr  |-> status_calibr,
     status_millis  |-> status_millis]

\* The initializer with the two units exchanged.
BenchCfgDefaultUnitsSwapped ==
    BenchCfgNew(DefaultWarmupMillis, "Micro", "Nano", DefaultSigfig,
                DefaultStatusCalibr, DefaultStatusMillis)

\* The initializer of the static BENCH_CFG.
BenchCfgDefault ==
    BenchCfgNew(DefaultWarmupMillis, "Nano", "Micro", DefaultSigfig,
                DefaultStatusCalibr, DefaultStatusMillis)

\* A builder that starts over from the defaults instead of from self.
WithFieldFromDefault(c, field, v) == [BenchCfgDefault EXCEPT ![field] = v]

\* The with_* builders: a copy of c with one field replaced.
WithField(c, field, v) == [c EXCEPT ![field] = v]

\* The (field, value) pairs the model passes to the with_* builders.
WithChoices ==
    ({"warmup_millis"} \X {0})
    \cup ({"recording_unit"} \X {"Micro", "Milli"})
    \cup ({"reporting_unit"} \X {"Milli"})
    \cup ({"sigfig"} \X {5})
    \cup ({"status_calibr"} \X {1})
    \cup ({"status_millis"} \X {2000})

\* BenchCfg::status_freq with executions_per_milli inlined.  The f64 arithmetic
\* is modelled in fixed point: latency_millis to three decimals (whole
\* microseconds), the final `as usize` cast truncates.  latency is the measured
\* Duration of the status_calibr probe calls and is > 0.
StatusFreq(c, latency) ==
    (c.status_millis * c.status_calibr * 1000) \div AsMicros(latency)

\* --------------------------------------------------------------- BenchOut

\* Fixed-point natural logarithm, in thousandths: 693 * log2(x), with the
\* fraction of log2 interpolated linearly.  LnMilli(1) = 0, and LnMilli is
\* positive above 1, as f64::ln is.
RECURSIVE Log2Floor(_)
Log2Floor(x) == IF x < 2 THEN 0 ELSE 1 + Log2Floor(x \div 2)

LnMilli(x) ==
    LET k == Log2Floor(x)
        p == 2 ^ k
    IN  693 * k + (693 * (x - p)) \div p

\* BenchOut::new.  hist is the hdrhistogram handle: its precision and the bag of
\* recorded values.
BenchOutNew(c) ==
    [recording_unit |-> c.recording_unit,
     reporting_unit |-> c.reporting_unit,
     hist    |-> [sigfig |-> c.sigfig, counts |-> EmptyBag],
     sum     |-> 0,
     sum2    |-> 0,
     n_ln    |-> 0,
     sum_ln  |-> 0,
     sum2_ln |-> 0]

\* Histogram::record (auto-resizing, never fails) and Histogram::reset.
HistRecord(h, v) == [h EXCEPT !.counts = @ (+) SetToBag({v})]
HistReset(h) == [h EXCEPT !.counts = EmptyBag]

\* BenchOut::n: hist.len().
N(out) == BagCardinality(out.hist.counts)

\* Reset as the earlier engine (collect/bench_one.rs) wrote it: sum2 and n_ln
\* are left as they are.
ResetKeepsSum2(out) ==
    [out EXCEPT !.hist = HistReset(@),
                !.sum = 0, !.sum_ln = 0, !.sum2_ln = 0]

\* BenchOut::reset.
Reset(out) ==
    [out EXCEPT !.hist = HistReset(@),
                !.sum = 0, !.sum2 = 0,
                !.n_ln = 0, !.sum_ln = 0, !.sum2_ln = 0]

\* The logarithmic part with its guard lost: every sample is counted in n_ln.
CaptureLnUnguarded(out, elapsed) ==
    LET ln == IF elapsed > 0 THEN LnMilli(elapsed) ELSE 0
    IN  [out EXCEPT !.n_ln = @ + 1,
                    !.sum_ln = @ + ln,
                    !.sum2_ln = @ + (ln * ln) \div 1000]

\* The logarithmic part of BenchOut::capture_data.
CaptureLn(out, elapsed) ==
    IF elapsed > 0
    THEN LET ln == LnMilli(elapsed)
         IN  [out EXCEPT !.n_ln = @ + 1,
                         !.sum_ln = @ + ln,
                         !.sum2_ln = @ + (ln * ln) \div 1000]
    ELSE out

\* elapsed.pow(2) on u64: whether it overflows, and its value when the build
\* has overflow checks off (the product modulo 2^ElapsedBits).
PowOverflows(elapsed) == elapsed * elapsed >= 2 ^ ElapsedBits
Pow2(elapsed) == (elapsed * elapsed) % (2 ^ ElapsedBits)

\* BenchOut::capture_data, where it returns; with overflow checks on it panics
\* in elapsed.pow(2) when PowOverflows(elapsed).
CaptureData(out, elapsed) ==
    CaptureLn([out EXCEPT !.hist = HistRecord(@, elapsed),
                          !.sum = @ + elapsed,
                          !.sum2 = @ + Pow2(elapsed)],
              elapsed)

\* ------------------------------------------------------------------ state

VARIABLES
    BENCH_CFG,     \* the static Mutex<BenchCfg>
    sets,          \* number of BenchCfg::set calls so far
    now,           \* the monotonic clock (Instant::now), as a Duration
    pc,            \* position of the bench_run_x call
    exec_count,    \* bench_run_x argument
    hooks,         \* bench_status.is_some()
    state,         \* bench_run_x: let mut state (the BenchOut)
    cfg,           \* bench_run_x: let cfg
    status_freq,   \* bench_run_x: let status_freq
    phase,         \* which execute call is active: "warmup" or "exec"
    finish_crit,   \* execute: finish_crit
    start,         \* execute: let start
    unit,          \* execute: let unit
    i,             \* execute: loop index
    elapsed,       \* execute: let elapsed (ms) of the latest Millis check
    cfg0,          \* history: BENCH_CFG at the first statement of bench_run_x
    hookLog,       \* history: the hook calls made, in order
    calls,         \* history: invocations of f by the probe, warmup and measurement
    captured,      \* history: bag of the samples captured since the accumulator was created or reset
    measured,      \* history: bag of the values captured by the measurement phase
    pair,          \* two calls of bench_run_x side by side: bench_status Some and None
    f1_out,        \* Comp::new: the accumulator passed as f1_out
    f2_out,        \* Comp::new: the accumulator passed as f2_out
    comp,          \* the outcome of Comp::new(&f1_out, &f2_out)
    result,        \* the outcome of the latest statistic call
    calibration,   \* one call of calibrate_busy_work_x: arguments, measured latency, outcome
    builder,       \* one thread's BenchCfg value between get_bench_cfg and set
    unif,          \* struct UnifIter
    items,         \* the items UnifIter::next has yielded, in order
    one,           \* bench_one.rs: the static WARMUP_MILLIS and one call of bench_one_x
    capture,       \* one accumulator fed by capture_data with any u64
    conv           \* one LatencyUnit conversion there and back

vars == <<BENCH_CFG, sets, now, pc, exec_count, hooks, state, cfg, status_freq,
          phase, finish_crit, start, unit, i, elapsed, cfg0, hookLog, calls,
          captured, measured, pair, f1_out, f2_out, comp, result, calibration,
          builder, unif, items, one, capture, conv>>

\* The variables of the engine run that the specification Spec explores.
engineVars == <<BENCH_CFG, sets, now, pc, exec_count, hooks, state, cfg,
                status_freq, phase, finish_crit, start, unit, i, elapsed, cfg0,
                hookLog, calls, captured, measured>>

compVars == <<f1_out, f2_out, comp, result>>
sampleVars == <<unif, items>>
oneVars == <<one, capture, conv>>

\* The variables Spec leaves alone.
otherVars == <<pair, compVars, calibration, builder, sampleVars, oneVars>>

runVars == <<exec_count, hooks, state, cfg, status_freq, phase, finish_crit,
             start, unit, i, elapsed, cfg0, hookLog, calls, captured, measured>>

\* enum FinishCrit.
Count(n) == [kind |-> "Count", v |-> n]
Millis(m) == [kind |-> "Millis", v |-> m]

\* Durations one invocation of f takes inside the loop of execute.
Latencies == {DurZero, Dur(0, 1500)}

\* Time that passes in an iteration outside the measured window (hooks,
\* scheduling) before the clock is read again.
Overheads == {DurZero, Dur(1, 0)}

\* Measured durations of the status_calibr probe calls of f.
ProbeLatencies == {Dur(1, 500000000), Dur(3, 0), Dur(4, 0)}

EngineInit ==
    /\ BENCH_CFG = BenchCfgDefault
    /\ sets = 0
    /\ now = DurZero
    /\ pc = "idle"
    /\ exec_count = 0
    /\ hooks = FALSE
    /\ state = BenchOutNew(BenchCfgDefault)
    /\ cfg = BenchCfgDefault
    /\ status_freq = 0
    /\ phase = "none"
    /\ finish_crit = Count(0)
    /\ start = DurZero
    /\ unit = "Nano"
    /\ i = 0
    /\ elapsed = 0
    /\ cfg0 = BenchCfgDefault
    /\ hookLog = <<>>
    /\ calls = [probe |-> 0, warmup |-> 0, exec |-> 0]
    /\ captured = EmptyBag
    /\ measured = EmptyBag

\* The locals of one call of bench_run_x before it begins; h is
\* bench_status.is_some().
RunIdle(h) ==
    [pc |-> "idle", hooks |-> h, exec_count |-> 0, now |-> DurZero,
     state |-> BenchOutNew(BenchCfgDefault), cfg |-> BenchCfgDefault,
     status_freq |-> 0, phase |-> "none", finish_crit |-> Count(0),
     start |-> DurZero, unit |-> "Nano", i |-> 0, warmup_end |-> 0,
     calls |-> [probe |-> 0, warmup |-> 0, exec |-> 0], hookLog |-> <<>>]

\* No call of the side-by-side pair has begun.
PairIdle == [some |-> RunIdle(TRUE), none |-> RunIdle(FALSE)]

\* No accumulators compared, no statistic called.
CompIdle ==
    /\ f1_out = BenchOutNew(BenchCfgDefault)
    /\ f2_out = BenchOutNew(BenchCfgDefault)
    /\ comp = [outcome |-> "none"]
    /\ result = [call |-> "none"]

\* No calibration, no builder chain and no sample iterator in progress.
CalibrationIdle == calibration = [pc |-> "idle"]
BuilderIdle == builder = [pc |-> "idle"]
SampleIdle == unif = [n |-> 0, i |-> 0, last |-> "idle"] /\ items = <<>>

\* WARMUP_MILLIS as initialized and no call of bench_one_x begun.
OneIdle ==
    [WARMUP_MILLIS |-> DefaultWarmupMillis, pc |-> "idle"]

\* No call of bench_one_x, no lone capture_data and no conversion in progress.
OneVarsIdle ==
    /\ one = OneIdle
    /\ capture = [pc |-> "idle"]
    /\ conv = [pc |-> "idle"]

Init ==
    /\ EngineInit
    /\ pair = PairIdle
    /\ CompIdle
    /\ CalibrationIdle
    /\ BuilderIdle
    /\ SampleIdle
    /\ OneVarsIdle

\* ---------------------------------------------------------------- actions

\* get_bench_cfg().with_<field>(v).set(), by any thread, or by f or a hook.
BenchCfgSet(field, v) ==
    /\ UNCHANGED otherVars
    /\ sets < MaxSets
    /\ BENCH_CFG' = WithField(BENCH_CFG, field, v)
    /\ sets' = sets + 1
    /\ UNCHANGED <<now, pc>>
    /\ UNCHANGED runVars

\* bench_run_x is called (bench_run passes None for bench_status).
BenchRunX(count, status) ==
    /\ UNCHANGED otherVars
    /\ pc = "idle"
    /\ pc' = "default"
    /\ exec_count' = count
    /\ hooks' = status
    /\ UNCHANGED <<BENCH_CFG, sets, now, state, cfg, status_freq, phase,
                   finish_crit, start, unit, i, elapsed, cfg0, hookLog, calls,
                   captured, measured>>

\* let mut state = BenchOut::default();
BenchOutDefault ==
    /\ UNCHANGED otherVars
    /\ pc = "default"
    /\ pc' = "get_cfg"
    /\ state' = BenchOutNew(BENCH_CFG)
    /\ captured' = EmptyBag
    /\ cfg0' = BENCH_CFG
    /\ UNCHANGED <<BENCH_CFG, sets, now, exec_count, hooks, cfg, status_freq,
                   phase, finish_crit, start, unit, i, elapsed, hookLog,
                   calls, measured>>

\* let cfg = get_bench_cfg();
GetBenchCfg ==
    /\ UNCHANGED otherVars
    /\ pc = "get_cfg"
    /\ pc' = "status_freq"
    /\ cfg' = BENCH_CFG
    /\ UNCHANGED <<BENCH_CFG, sets, now, exec_count, hooks, state, status_freq,
                   phase, finish_crit, start, unit, i, elapsed, cfg0, hookLog,
                   calls, captured, measured>>

\* let status_freq = cfg.status_freq(&mut f);  the probe calls f
\* cfg.status_calibr times and captures nothing.
CalibrateStatusFreq(latency) ==
    /\ UNCHANGED otherVars
    /\ pc = "status_freq"
    /\ pc' = "warmup"
    /\ status_freq' = StatusFreq(cfg, latency)
    /\ now' = DurAdd(now, latency)
    /\ calls' = [calls EXCEPT !.probe = @ + cfg.status_calibr]
    /\ UNCHANGED <<BENCH_CFG, sets, exec_count, hooks, state, cfg, phase,
                   finish_crit, start, unit, i, elapsed, cfg0, hookLog,
                   captured, measured>>

\* BenchState::warmup up to its call of execute.
Warmup ==
    /\ UNCHANGED otherVars
    /\ pc = "warmup"
    /\ pc' = "execute"
    /\ phase' = "warmup"
    /\ finish_crit' = Millis(BENCH_CFG.warmup_millis)
    /\ UNCHANGED <<BENCH_CFG, sets, now, exec_count, hooks, state, cfg,
                   status_freq, start, unit, i, elapsed, cfg0, hookLog, calls,
                   captured, measured>>

\* The precondition with the comparison loosened: true of every usize.
StatusFreqAny(freq) == freq >= 0

\* The precondition asserted on entry to execute.
StatusFreqOk(freq) == freq > 0

\* The pairing of bench_run_x with its two pre hooks exchanged.
PreHookSwapped(ph) == IF ph = "warmup" THEN "pre_exec" ELSE "pre_warmup"

\* The names under which execute's pre_exec and exec_status are the caller's
\* hooks: (pre_warmup, warmup_status) in warmup, (pre_exec, exec_status) after.
PreHook(ph) == IF ph = "warmup" THEN "pre_warmup" ELSE "pre_exec"
StatusHook(ph) == IF ph = "warmup" THEN "warmup_status" ELSE "exec_status"

HookCall(name, arg) == [hook |-> name, arg |-> arg]

\* execute, from the assert to the call of pre_exec.
ExecuteEnter ==
    /\ UNCHANGED otherVars
    /\ pc = "execute"
    /\ IF StatusFreqOk(status_freq)
       THEN /\ pc' = "get_unit"
            /\ start' = now
            /\ hookLog' = IF hooks THEN Append(hookLog, HookCall(PreHook(phase), 0))
                          ELSE hookLog
       ELSE /\ pc' = "panicked"
            /\ UNCHANGED <<start, hookLog>>
    /\ UNCHANGED <<BENCH_CFG, sets, now, exec_count, hooks, state, cfg,
                   status_freq, phase, finish_crit, unit, i, elapsed, cfg0,
                   calls, captured, measured>>

\* let unit = get_bench_cfg().recording_unit();
ExecuteGetUnit ==
    /\ UNCHANGED otherVars
    /\ pc = "get_unit"
    /\ pc' = "loop"
    /\ unit' = BENCH_CFG.recording_unit
    /\ i' = 0
    /\ UNCHANGED <<BENCH_CFG, sets, now, exec_count, hooks, state, cfg,
                   status_freq, phase, finish_crit, start, elapsed, cfg0,
                   hookLog, calls, captured, measured>>

\* The test always true: status and stopping rule after every iteration.
StatusDueAlways(idx, freq, crit) == TRUE

\* The test without its second disjunct: the final iteration is not special.
StatusDuePeriodOnly(idx, freq, crit) == idx % freq = 0

\* if i % status_freq == 0 || finish_crit == FinishCrit::Count(i)
StatusDue(idx, freq, crit) == idx % freq = 0 \/ crit = Count(idx)

\* The Millis arm without the rounding: plain elapsed against the target.
MillisReachedUnrounded(el, freq, idx, millis) == el >= millis

\* The rounding with the parentheses of (i * 2) lost.
MillisReachedNoParens(el, freq, idx, millis) ==
    el + ((el * freq) \div idx) * 2 >= millis

\* The Millis arm: elapsed rounded up by half a status period.
MillisReached(el, freq, idx, millis) ==
    el + (el * freq) \div (idx * 2) >= millis

\* The match with the Count guard off by one: breaks one iteration early.
FinishedOneEarly(crit, idx, el, freq) ==
    CASE crit.kind = "Count"  -> crit.v = idx + 1
      [] crit.kind = "Millis" -> MillisReached(el, freq, idx, crit.v)

\* The match on finish_crit: TRUE when the loop breaks.
Finished(crit, idx, el, freq) ==
    CASE crit.kind = "Count"  -> crit.v = idx
      [] crit.kind = "Millis" -> MillisReached(el, freq, idx, crit.v)

\* One iteration of the loop of execute: f is invoked and takes `latency`,
\* the sample is captured, the status hook and the finishing test follow.
ExecuteIter(latency, overhead) ==
    /\ UNCHANGED otherVars
    /\ pc = "loop"
    /\ i < MaxIter
    /\ LET idx == i + 1
           value == LatencyAsU64(unit, latency)
           t == DurAdd(DurAdd(now, latency), overhead)
           due == StatusDue(idx, status_freq, finish_crit)
           el == AsMillis(DurationSince(t, start))
       IN  /\ i' = idx
           /\ now' = t
           /\ state' = CaptureData(state, value)
           /\ calls' = [calls EXCEPT ![phase] = @ + 1]
           /\ captured' = captured (+) SetToBag({[latency |-> latency,
                                                   unit |-> unit,
                                                   value |-> value]})
           /\ measured' = IF phase = "exec" THEN measured (+) SetToBag({value})
                          ELSE measured
           /\ hookLog' = IF due /\ hooks
                         THEN Append(hookLog, HookCall(StatusHook(phase), idx))
                         ELSE hookLog
           /\ elapsed' = IF due /\ finish_crit.kind = "Millis" THEN el ELSE elapsed
           /\ pc' = IF due /\ Finished(finish_crit, idx, el, status_freq)
                    THEN (IF phase = "warmup" THEN "reset" ELSE "done")
                    ELSE "loop"
    /\ UNCHANGED <<BENCH_CFG, sets, exec_count, hooks, cfg, status_freq, phase,
                   finish_crit, start, unit, cfg0>>

\* state.reset(); followed by the call of execute with
\* FinishCrit::Count(exec_count).
ResetState ==
    /\ UNCHANGED otherVars
    /\ pc = "reset"
    /\ pc' = "execute"
    /\ state' = Reset(state)
    /\ captured' = EmptyBag
    /\ phase' = "exec"
    /\ finish_crit' = Count(exec_count)
    /\ UNCHANGED <<BENCH_CFG, sets, now, exec_count, hooks, cfg, status_freq,
                   start, unit, i, elapsed, cfg0, hookLog, calls, measured>>

Next ==
    \/ \E c \in WithChoices : BenchCfgSet(c[1], c[2])
    \/ \E count \in 0..MaxExec, status \in BOOLEAN : BenchRunX(count, status)
    \/ BenchOutDefault
    \/ GetBenchCfg
    \/ \E latency \in ProbeLatencies : CalibrateStatusFreq(latency)
    \/ Warmup
    \/ ExecuteEnter
    \/ ExecuteGetUnit
    \/ \E latency \in Latencies, overhead \in Overheads : ExecuteIter(latency, overhead)
    \/ ResetState

Spec == Init /\ [][Next]_vars

\* ----------------------------------------------------------------- claims

\* The measurement call of execute has entered its loop (or has returned).
InMeasurementLoop == phase = "exec" /\ pc \in {"loop", "done"}

\* The arguments of the calls of hook `name` in the log, in order.
HookArgs(name) ==
    LET calledAs == SelectSeq(hookLog, LAMBDA c : c.hook = name)
    IN  [k \in 1..Len(calledAs) |-> calledAs[k].arg]

\* Sum over a bag of values of one term per copy.
Term(kind, e) ==
    CASE kind = "sum"     -> e
      [] kind = "sum2"    -> e * e
      [] kind = "n_ln"    -> IF e > 0 THEN 1 ELSE 0
      [] kind = "sum_ln"  -> IF e > 0 THEN LnMilli(e) ELSE 0
      [] kind = "sum2_ln" -> IF e > 0 THEN (LnMilli(e) * LnMilli(e)) \div 1000 ELSE 0

RECURSIVE TotalOver(_, _, _)
TotalOver(kind, B, S) ==
    IF S = {} THEN 0
    ELSE LET e == CHOOSE x \in S : TRUE
         IN  CopiesIn(e, B) * Term(kind, e) + TotalOver(kind, B, S \ {e})

Total(kind, B) == TotalOver(kind, B, BagToSet(B))

\* The bag of the values of the samples in `captured`, and how many are zero.
RECURSIVE ZerosOver(_)
ZerosOver(S) ==
    IF S = {} THEN 0
    ELSE LET s == CHOOSE x \in S : TRUE
         IN  (IF s.value = 0 THEN CopiesIn(s, captured) ELSE 0) + ZerosOver(S \ {s})

CapturedZeros == ZerosOver(BagToSet(captured))

\* C1: with exec_count >= 1 (and status_freq >= 1, which the loop requires),
\* the measurement phase invokes f at most exec_count times, keeps one sample
\* per invocation, still loops only below exec_count invocations, and returns
\* with exactly exec_count invocations and n() = exec_count.
C1_ExactlyExecCountSamples ==
    (phase = "exec" /\ exec_count >= 1) =>
        /\ calls.exec <= exec_count
        /\ N(state) = calls.exec
        /\ (pc = "loop" => calls.exec < exec_count)
        /\ (pc = "done" => calls.exec = exec_count /\ N(state) = exec_count)

C1_Witness ==
    pc = "done" /\ exec_count = MaxExec /\ calls.exec = MaxExec /\ status_freq = 2

\* C2: with exec_count = 0 the measurement phase invokes f never and captures
\* nothing: n() = 0 and n_ln = 0.
C2_ZeroCountCapturesNothing ==
    (phase = "exec" /\ exec_count = 0) =>
        calls.exec = 0 /\ N(state) = 0 /\ state.n_ln = 0

\* C3: when the measurement call of execute begins the accumulator holds
\* nothing (reset zeroed the histogram and all five sums), and on return every
\* count and sum is the aggregate of the exec_count measured samples alone.
C3_MeasurementDataOnly ==
    /\ (phase = "exec" /\ pc \in {"execute", "get_unit"}) =>
           /\ N(state) = 0 /\ state.sum = 0 /\ state.sum2 = 0
           /\ state.n_ln = 0 /\ state.sum_ln = 0 /\ state.sum2_ln = 0
    /\ pc = "done" =>
           /\ BagCardinality(measured) = exec_count
           /\ state.hist.counts = measured
           /\ state.sum = Total("sum", measured)
           /\ state.sum2 = Total("sum2", measured)
           /\ state.n_ln = Total("n_ln", measured)
           /\ state.sum_ln = Total("sum_ln", measured)
           /\ state.sum2_ln = Total("sum2_ln", measured)

C3_Witness ==
    /\ pc = "done" /\ exec_count >= 2 /\ calls.warmup >= 2
    /\ state.sum2 > 0 /\ state.n_ln < N(state)

\* C4: after k captures on a new or reset accumulator n() = k and
\* n_ln = k - (captures of 0); the zero captures are in the histogram and add
\* nothing to sum_ln and sum2_ln; n_ln <= n.
C4_CountsAfterCaptures ==
    LET k == BagCardinality(captured)
        values == state.hist.counts
    IN  /\ N(state) = k
        /\ state.n_ln = k - CapturedZeros
        /\ CopiesIn(0, values) = CapturedZeros
        /\ state.sum_ln = Total("sum_ln", values)
        /\ state.sum2_ln = Total("sum2_ln", values)
        /\ state.n_ln <= N(state)

C4_Witness ==
    N(state) >= 3 /\ CapturedZeros >= 1 /\ state.n_ln = N(state) - CapturedZeros
                  /\ state.n_ln >= 1

\* The iterations up to `upto` after which exec_status is due under the claim.
DueIterations(upto) ==
    SelectSeq([k \in 1..upto |-> k],
              LAMBDA k : k % status_freq = 0 \/ k = exec_count)

\* C5: with hooks, after iteration i of the measurement loop exec_status has
\* been called once for each iteration up to i that is a multiple of
\* status_freq or equals exec_count, in increasing order, and for no other;
\* on return the last call has argument exec_count.  Without hooks nothing is
\* called.
C5_ExecStatusCadence ==
    /\ (hooks /\ InMeasurementLoop) =>
           /\ HookArgs("exec_status") = DueIterations(i)
           /\ (pc = "done" =>
                  /\ HookArgs("exec_status") # <<>>
                  /\ HookArgs("exec_status")[Len(HookArgs("exec_status"))] = exec_count)
    /\ (hooks /\ ~InMeasurementLoop) => HookArgs("exec_status") = <<>>
    /\ ~hooks => hookLog = <<>>

C5_Witness ==
    /\ hooks /\ pc = "done" /\ exec_count = 3 /\ status_freq = 2
    /\ HookArgs("exec_status") = <<2, 3>>

\* C6: with hooks, exec_status is called after each execution of f in the
\* measurement loop, with 1, 2, ..., i after iteration i.
C6_StatusAfterEachExecution ==
    (hooks /\ InMeasurementLoop) => HookArgs("exec_status") = [k \in 1..i |-> k]

C8_ZeroStatusFreqRejected ==
    /\ pc \in {"get_unit", "loop", "reset", "done"} => status_freq > 0
    /\ pc = "panicked" =>
           /\ status_freq = 0
           /\ calls.warmup = 0 /\ calls.exec = 0
           /\ hookLog = <<>>
           /\ captured = EmptyBag
           /\ state = BenchOutNew([recording_unit |-> state.recording_unit,
                                   reporting_unit |-> state.reporting_unit,
                                   sigfig |-> state.hist.sigfig])

C8_Witness ==
    pc = "panicked" /\ hooks /\ status_freq = 0 /\ calls.probe > 0

\* C9: every configuration value the run uses is the one BENCH_CFG held when
\* the run began (at its first statement, BenchOut::default()): the
\* accumulator's units and precision, the cfg snapshot behind status_freq, the
\* warmup target, the unit of the conversions.
C9_RunUsesStartCfg ==
    /\ pc \notin {"idle", "default"} =>
           /\ state.recording_unit = cfg0.recording_unit
           /\ state.reporting_unit = cfg0.reporting_unit
           /\ state.hist.sigfig = cfg0.sigfig
    /\ pc \notin {"idle", "default", "get_cfg"} => cfg = cfg0
    /\ phase = "warmup" => finish_crit = Millis(cfg0.warmup_millis)
    /\ pc \in {"loop", "reset", "done"} => unit = cfg0.recording_unit

\* C10: every sample in the accumulator was converted with the unit the
\* accumulator reports as its recording_unit.
C10_SamplesInRecordingUnit ==
    \A s \in BagToSet(captured) :
        /\ s.unit = state.recording_unit
        /\ s.value = LatencyAsU64(state.recording_unit, s.latency)

\* The position of a hook in the fixed order of the run.
HookRank(name) ==
    CASE name = "pre_warmup"    -> 1
      [] name = "warmup_status" -> 2
      [] name = "pre_exec"      -> 3
      [] name = "exec_status"   -> 4

\* How many calls of hook `name` the log holds.
HookCount(name) == Len(SelectSeq(hookLog, LAMBDA c : c.hook = name))

\* C11: with hooks, the calls come in the order pre_warmup, warmup_status*,
\* pre_exec, exec_status*.  pre_warmup is called once, before the first warmup
\* invocation of f; warmup_status only during warmup; pre_exec once, after the
\* last warmup invocation and the reset and before the first measured
\* invocation; exec_status only after pre_exec.
C11_HookOrder ==
    hooks =>
        /\ \A k \in 1..(Len(hookLog) - 1) :
               HookRank(hookLog[k].hook) <= HookRank(hookLog[k + 1].hook)
        /\ HookCount("pre_warmup") <= 1 /\ HookCount("pre_exec") <= 1
        /\ (HookCount("pre_warmup") = 1) <=>
               (phase = "exec" \/ (phase = "warmup" /\ pc \in {"get_unit", "loop", "reset"}))
        /\ (HookCount("pre_exec") = 1) <=>
               (phase = "exec" /\ pc \in {"get_unit", "loop", "done"})
        /\ calls.warmup > 0 => hookLog[1].hook = "pre_warmup"
        /\ phase # "exec" => HookCount("pre_exec") = 0 /\ HookCount("exec_status") = 0
        /\ (phase = "exec" /\ pc = "execute") =>
               N(state) = 0 /\ calls.exec = 0 /\ HookCount("pre_exec") = 0
        /\ HookCount("pre_exec") = 1 => N(state) = calls.exec
        /\ calls.exec > 0 => HookCount("pre_exec") = 1
        /\ HookCount("warmup_status") > 0 => calls.warmup > 0

C11_Witness ==
    /\ hooks /\ pc = "done"
    /\ HookCount("pre_warmup") = 1 /\ HookCount("warmup_status") >= 2
    /\ HookCount("pre_exec") = 1 /\ HookCount("exec_status") >= 2

\* ------------------------------------------- bench_run_x with and without hooks

\* execute, from the assert to the head of the loop, on the locals r of one call.
RunEnterExecute(r) ==
    IF StatusFreqOk(r.status_freq)
    THEN [r EXCEPT !.pc = "loop",
                   !.start = r.now,
                   !.hookLog = IF r.hooks THEN Append(@, HookCall(PreHook(r.phase), 0))
                               ELSE @,
                   !.unit = BENCH_CFG.recording_unit,
                   !.i = 0]
    ELSE [r EXCEPT !.pc = "panicked"]

\* bench_run_x from its first statement to the head of the warmup loop; the
\* probe of status_freq takes `latency`.
RunStart(r, count, latency) ==
    RunEnterExecute([r EXCEPT !.exec_count = count,
                              !.state = BenchOutNew(BENCH_CFG),
                              !.cfg = BENCH_CFG,
                              !.status_freq = StatusFreq(BENCH_CFG, latency),
                              !.now = DurAdd(@, latency),
                              !.calls.probe = BENCH_CFG.status_calibr,
                              !.phase = "warmup",
                              !.finish_crit = Millis(BENCH_CFG.warmup_millis)])

\* The match on finish_crit moved inside the `if let Some` of the status hook.
FinishTestedWithHook(due, some) == due /\ some

\* In a due iteration the match on finish_crit follows the `if let Some` of
\* the status hook, whether or not the hook is there.
FinishTested(due, some) == due

\* One iteration of the loop of execute on the locals r; when the warmup loop
\* breaks, state.reset() and the measurement call of execute up to its loop.
RunIter(r, latency, overhead) ==
    LET idx == r.i + 1
        value == LatencyAsU64(r.unit, latency)
        t == DurAdd(DurAdd(r.now, latency), overhead)
        due == StatusDue(idx, r.status_freq, r.finish_crit)
        el == AsMillis(DurationSince(t, r.start))
        break == /\ FinishTested(due, r.hooks)
                 /\ Finished(r.finish_crit, idx, el, r.status_freq)
        r1 == [r EXCEPT !.i = idx,
                        !.now = t,
                        !.state = CaptureData(@, value),
                        !.calls[r.phase] = @ + 1,
                        !.hookLog = IF due /\ r.hooks
                                    THEN Append(@, HookCall(StatusHook(r.phase), idx))
                                    ELSE @]
    IN  IF ~break THEN r1
        ELSE IF r.phase = "warmup"
             THEN RunEnterExecute([r1 EXCEPT !.state = Reset(@),
                                            !.warmup_end = idx,
                                            !.phase = "exec",
                                            !.finish_crit = Count(r.exec_count)])
             ELSE [r1 EXCEPT !.pc = "done"]

\* bench_run_x(f, count, Some(..)) and bench_run_x(f, count, None) begin; both
\* probes take `latency`.
PairStart(count, latency) ==
    /\ pair.some.pc = "idle"
    /\ pair' = [some |-> RunStart(pair.some, count, latency),
                none |-> RunStart(pair.none, count, latency)]
    /\ UNCHANGED <<oneVars, engineVars, compVars, calibration, builder, sampleVars>>

\* Both calls run one iteration of their loop with the same clock readings.
PairIter(latency, overhead) ==
    /\ pair.some.pc = "loop"
    /\ pair.some.i < MaxIter
    /\ pair' = [some |-> RunIter(pair.some, latency, overhead),
                none |-> IF pair.none.pc = "loop"
                         THEN RunIter(pair.none, latency, overhead)
                         ELSE pair.none]
    /\ UNCHANGED <<oneVars, engineVars, compVars, calibration, builder, sampleVars>>

HooksNext ==
    \/ \E c \in WithChoices : BenchCfgSet(c[1], c[2])
    \/ \E count \in 0..MaxExec, latency \in ProbeLatencies : PairStart(count, latency)
    \/ \E latency \in Latencies, overhead \in Overheads : PairIter(latency, overhead)

SpecHooks == Init /\ [][HooksNext]_vars

\* What a call of bench_run_x does and returns, apart from its hook calls.
Functional(r) == [r EXCEPT !.hooks = FALSE, !.hookLog = <<>>]

\* C12: for the same exec_count, configuration and clock readings, the call
\* with bench_status Some and the call with None have invoked f the same
\* number of times in the probe, the warmup and the measurement, ended warmup
\* at the same iteration, stand at the same point and hold the same
\* accumulator; only the call with hooks calls hooks.
C12_HooksObservational ==
    /\ Functional(pair.some) = Functional(pair.none)
    /\ pair.none.hookLog = <<>>

C12_Witness ==
    /\ pair.some.pc = "done" /\ pair.none.pc = "done"
    /\ pair.some.warmup_end >= 2 /\ pair.some.exec_count >= 2
    /\ Len(pair.some.hookLog) >= 4
    /\ N(pair.none.state) = pair.none.exec_count

\* ------------------------------------------------------------------- Comp

\* Comp::new with its second assert_eq! lost.
CompNewRecordingOnly(a, b) ==
    IF a.recording_unit # b.recording_unit THEN [outcome |-> "panic"]
    ELSE [outcome |-> "ok", f1 |-> a, f2 |-> b]

\* Comp::new: the two assert_eq! panic; otherwise the tuple struct of the two
\* references (fields 0 and 1, here f1 and f2).
CompNew(a, b) ==
    IF a.recording_unit # b.recording_unit THEN [outcome |-> "panic"]
    ELSE IF a.reporting_unit # b.reporting_unit THEN [outcome |-> "panic"]
    ELSE [outcome |-> "ok", f1 |-> a, f2 |-> b]

\* Comp::f1_out and Comp::f2_out.
F1Out(c) == c.f1
F2Out(c) == c.f2

\* The configurations the compared accumulators are created under.
CompCfgs ==
    {WithField(WithField(BenchCfgDefault, "recording_unit", ru), "reporting_unit", pu) :
        ru \in LatencyUnit, pu \in LatencyUnit}

\* The latencies, in recording units, captured into the compared accumulators.
SampleValues == {0, 2, 7}

CompInit ==
    /\ EngineInit
    /\ pair = PairIdle
    /\ f1_out \in {BenchOutNew(c) : c \in CompCfgs}
    /\ f2_out \in {BenchOutNew(c) : c \in CompCfgs}
    /\ comp = [outcome |-> "none"]
    /\ result = [call |-> "none"]
    /\ CalibrationIdle
    /\ BuilderIdle
    /\ SampleIdle
    /\ OneVarsIdle

\* capture_data on one of the two accumulators, before they are borrowed by Comp.
CompCapture(which, elapsed_v) ==
    /\ comp.outcome = "none"
    /\ result.call = "none"
    /\ IF which = 1
       THEN /\ N(f1_out) < MaxSamples
            /\ f1_out' = CaptureData(f1_out, elapsed_v)
            /\ UNCHANGED f2_out
       ELSE /\ N(f2_out) < MaxSamples
            /\ f2_out' = CaptureData(f2_out, elapsed_v)
            /\ UNCHANGED f1_out
    /\ UNCHANGED <<comp, result>>
    /\ UNCHANGED <<oneVars, engineVars, pair, calibration, builder, sampleVars>>

\* let comp = Comp::new(&f1_out, &f2_out);
CompConstruct ==
    /\ comp.outcome = "none"
    /\ comp' = CompNew(f1_out, f2_out)
    /\ UNCHANGED <<f1_out, f2_out, result>>
    /\ UNCHANGED <<oneVars, engineVars, pair, calibration, builder, sampleVars>>

\* ------------------------------------------------- f64 and the statistics

\* An f64 in decimal fixed point: v * 10^(e - 3), or NaN.
NaN == [nan |-> TRUE, v |-> 0, e |-> 0]
F64(x) == [nan |-> FALSE, v |-> x, e |-> 0]

\* f64 + x (x in thousandths), -f64, f64 * 10^k.  NaN propagates.
FAdd(a, x) == IF a.nan THEN NaN ELSE [a EXCEPT !.v = @ + x]
FNeg(a) == IF a.nan THEN NaN ELSE [a EXCEPT !.v = -@]
FMulPow10(a, k) == IF a.nan THEN NaN ELSE [a EXCEPT !.e = @ + k]

\* f64 division and square root in fixed point: the quotient is rounded
\* towards zero, so that (-a) / b = -(a / b) as in IEEE arithmetic.
SymDiv(a, b) == IF a >= 0 THEN a \div b ELSE -((-a) \div b)

RECURSIVE SqrtFrom(_, _)
SqrtFrom(x, r) == IF r * r <= x THEN r ELSE SqrtFrom(x, (r + x \div r) \div 2)

ISqrt(x) == IF x < 2 THEN x ELSE SqrtFrom(x, IF x < 46340 THEN x ELSE 46340)

\* The Result<_, _> of a basic_stats function, and the aok() conversion the
\* accessors apply to it: the Ok value, or NaN in place of an error.
Ok(x) == [ok |-> TRUE, v |-> x]
Err == [ok |-> FALSE, v |-> 0]
Aok(res) == IF res.ok THEN F64(res.v) ELSE NaN

\* SampleMoments::new(n, sum, sum2); sum and sum2 in thousandths.
SampleMomentsNew(n, sum, sum2) == [n |-> n, sum |-> sum, sum2 |-> sum2]

\* Mean, variance and squared standard error of the mean of the sample behind
\* the moments, in thousandths.
MomMean(m) == SymDiv(m.sum, m.n)
MomVar(m) == SymDiv(m.sum2 - SymDiv(m.sum * m.sum, m.n * 1000), m.n - 1)
MomSe2(m) == SymDiv(MomVar(m), m.n)

\* sample_mean and sample_stdev.
SampleMean(n, sum) == IF n = 0 THEN Err ELSE Ok(SymDiv(sum, n))
SampleStdev(n, sum, sum2) ==
    IF n < 2 THEN Err
    ELSE LET var == MomVar(SampleMomentsNew(n, sum, sum2))
         IN  IF var < 0 THEN Err ELSE Ok(ISqrt(var * 1000))

\* The significance levels alpha the model passes, in thousandths.
Alphas == {10, 50}

\* The two-sided critical value of Student's t for alpha and df degrees of
\* freedom, in thousandths.
TQuantile(df, alpha) ==
    IF alpha = 50
    THEN CASE df <= 1 -> 12706 [] df = 2 -> 4303 [] df = 3 -> 3182
           [] df = 4 -> 2776 [] df = 5 -> 2571 [] OTHER -> 2447
    ELSE CASE df <= 1 -> 63657 [] df = 2 -> 9925 [] df = 3 -> 5841
           [] df = 4 -> 4604 [] df = 5 -> 4032 [] OTHER -> 3707

Abs(x) == IF x < 0 THEN -x ELSE x

\* The two-sided p-value of t, to the bracket of the table it falls in: the
\* smallest alpha of the table at which t is significant, else 1.
PValue(t, df) ==
    IF Abs(t) >= TQuantile(df, 10) THEN 10
    ELSE IF Abs(t) >= TQuantile(df, 50) THEN 50 ELSE 1000

\* student_1samp_t, student_1samp_p, student_1samp_ci and student_1samp_test
\* (alt_hyp = AltHyp::Ne): errors below two observations and at zero variance.
StudentDefined(m) == m.n >= 2 /\ MomSe2(m) > 0
Student1SampT(m, mu0) ==
    IF ~StudentDefined(m) THEN Err
    ELSE Ok(SymDiv((MomMean(m) - mu0) * 1000, ISqrt(MomSe2(m) * 1000)))
Student1SampP(m, mu0) ==
    IF ~StudentDefined(m) THEN Err
    ELSE Ok(PValue(Student1SampT(m, mu0).v, m.n - 1))
Student1SampCi(m, alpha) ==
    IF ~StudentDefined(m) THEN Err
    ELSE LET margin == (TQuantile(m.n - 1, alpha) * ISqrt(MomSe2(m) * 1000)) \div 1000
         IN  Ok(<<MomMean(m) - margin, MomMean(m) + margin>>)

\* struct Ci(f64, f64) and struct HypTestResult, and AokBasicStats::aok on
\* their Results.
Ci(low, high) == [low |-> low, high |-> high]
AokCi(res) == IF res.ok THEN Ci(F64(res.v[1]), F64(res.v[2])) ELSE Ci(NaN, NaN)
HypTestResult(p, alpha) ==
    [p |-> p, alpha |-> alpha,
     accepted |-> IF p.nan THEN "none" ELSE IF p.v < alpha THEN "Alt" ELSE "Null"]

\* nano_equivalence as a power of ten, and conversion_factor likewise.
NanoExp(u) == CASE u = "Milli" -> 6 [] u = "Micro" -> 3 [] u = "Nano" -> 0
ConversionExp(out) == NanoExp(out.recording_unit) - NanoExp(out.reporting_unit)

\* self.converson_factor().ln(): ln(10) = 2.303.
LnConversion(out) == ConversionExp(out) * 2303

\* The moments with the count of all samples, n, in place of n_ln.
MomentsLnCountsAll(out) == SampleMomentsNew(N(out), out.sum_ln, out.sum2_ln)

\* The moments of the logarithms in a BenchOut.
MomentsLn(out) == SampleMomentsNew(out.n_ln, out.sum_ln, out.sum2_ln)

\* BenchOut::mean, stdev, mean_ln, stdev_ln.
Mean(out) == FMulPow10(Aok(SampleMean(N(out), out.sum * 1000)), ConversionExp(out))
Stdev(out) ==
    FMulPow10(Aok(SampleStdev(N(out), out.sum * 1000, out.sum2 * 1000)),
              ConversionExp(out))
MeanLn(out) == FAdd(Aok(SampleMean(out.n_ln, out.sum_ln)), LnConversion(out))
StdevLn(out) == Aok(SampleStdev(out.n_ln, out.sum_ln, out.sum2_ln))

\* BenchOut::student_ln_t, student_ln_p, student_ln_ci, student_ln_test.
StudentLnT(out, ln_mu0) == Aok(Student1SampT(MomentsLn(out), ln_mu0 - LnConversion(out)))
StudentLnP(out, ln_mu0) == Aok(Student1SampP(MomentsLn(out), ln_mu0 - LnConversion(out)))
StudentLnCi(out, alpha) ==
    LET ci_rec == AokCi(Student1SampCi(MomentsLn(out), alpha))
    IN  Ci(FAdd(ci_rec.low, LnConversion(out)), FAdd(ci_rec.high, LnConversion(out)))
StudentLnTest(out, ln_mu0, alpha) == HypTestResult(StudentLnP(out, ln_mu0), alpha)

\* The statistics of BenchOut that divide by n or by n_ln, and the count each
\* divides by.
StatNames ==
    {"mean", "stdev", "mean_ln", "stdev_ln",
     "student_ln_t", "student_ln_p", "student_ln_ci", "student_ln_test"}
StatCount(out, name) == IF name \in {"mean", "stdev"} THEN N(out) ELSE out.n_ln

\* The hypothesised logarithms the model passes, in thousandths.
LnMu0s == {0, 1000}

\* What a call of the statistic `name` on `out` returns.
Stat(out, name, ln_mu0, alpha) ==
    CASE name = "mean"            -> Mean(out)
      [] name = "stdev"           -> Stdev(out)
      [] name = "mean_ln"         -> MeanLn(out)
      [] name = "stdev_ln"        -> StdevLn(out)
      [] name = "student_ln_t"    -> StudentLnT(out, ln_mu0)
      [] name = "student_ln_p"    -> StudentLnP(out, ln_mu0)
      [] name = "student_ln_ci"   -> StudentLnCi(out, alpha)
      [] name = "student_ln_test" -> StudentLnTest(out, ln_mu0, alpha)

\* The student_ln_* methods, each of which builds SampleMoments::new(..) and
\* passes it to its student_1samp_* function.
StudentNames == {"student_ln_t", "student_ln_p", "student_ln_ci", "student_ln_test"}

\* f1_out.<name>(..) is called; `moments` is the SampleMoments the call passes
\* to basic_stats.
OutStat(name, ln_mu0, alpha) ==
    /\ result.call = "none"
    /\ result' = IF name \in StudentNames
                 THEN [call |-> name, value |-> Stat(f1_out, name, ln_mu0, alpha),
                       moments |-> MomentsLn(f1_out)]
                 ELSE [call |-> name, value |-> Stat(f1_out, name, ln_mu0, alpha)]
    /\ UNCHANGED <<f1_out, f2_out, comp>>
    /\ UNCHANGED <<oneVars, engineVars, pair, calibration, builder, sampleVars>>

\* welch_t and welch_ci for mean(sample 1) - mean(sample 2): errors below two
\* observations in either sample and at zero standard error.  The degrees of
\* freedom are Welch-Satterthwaite's.
WelchT(m1, m2, d0) ==
    LET se2 == MomSe2(m1) + MomSe2(m2)
    IN  IF m1.n < 2 \/ m2.n < 2 \/ se2 <= 0 THEN Err
        ELSE Ok(SymDiv((MomMean(m1) - MomMean(m2) - d0) * 1000, ISqrt(se2 * 1000)))
WelchCi(m1, m2, alpha) ==
    LET s1 == MomSe2(m1)
        s2 == MomSe2(m2)
        denom == (s1 * s1) \div (m1.n - 1) + (s2 * s2) \div (m2.n - 1)
        df == IF denom = 0 THEN m1.n + m2.n - 2 ELSE ((s1 + s2) * (s1 + s2)) \div denom
        diff == MomMean(m1) - MomMean(m2)
        margin == (TQuantile(df, alpha) * ISqrt((s1 + s2) * 1000)) \div 1000
    IN  IF m1.n < 2 \/ m2.n < 2 \/ s1 + s2 <= 0 THEN Err
        ELSE Ok(<<diff - margin, diff + margin>>)

\* f64::exp: the positive number e^a, held as its logarithm (NaN stays NaN).
FExp(a) == [nan |-> a.nan, ln |-> a.v]

\* moments_ln_f2 reading the first accumulator.
MomentsLnF2FromF1(c) == MomentsLn(c.f1)

\* Comp::moments_ln_f1 and Comp::moments_ln_f2.
MomentsLnF1(c) == MomentsLn(c.f1)
MomentsLnF2(c) == MomentsLn(c.f2)

\* Comp::welch_ln_t, Comp::welch_ln_ci and Comp::welch_ratio_ci.
WelchLnT(c, ln_d0) == Aok(WelchT(MomentsLnF1(c), MomentsLnF2(c), ln_d0))
WelchLnCi(c, alpha) == AokCi(WelchCi(MomentsLnF1(c), MomentsLnF2(c), alpha))
WelchRatioCi(c, alpha) ==
    LET ci == WelchLnCi(c, alpha)
    IN  Ci(FExp(ci.low), FExp(ci.high))

\* The hypothesised differences of logarithms the model passes, in thousandths.
LnD0s == {-500, 0, 500}

\* welch_ln_t and welch_ratio_ci are called on comp = Comp::new(&f1_out,
\* &f2_out) and on Comp::new(&f2_out, &f1_out).  `moments` are the two
\* SampleMoments that each welch_ln_* method of comp passes to basic_stats.
CompWelch(ln_d0, alpha) ==
    /\ comp.outcome = "ok"
    /\ result.call = "none"
    /\ LET swapped == CompNew(F2Out(comp), F1Out(comp))
       IN  result' = [call |-> "welch", ln_d0 |-> ln_d0, alpha |-> alpha,
                      t |-> WelchLnT(comp, ln_d0),
                      ci |-> WelchRatioCi(comp, alpha),
                      swapped_t |-> WelchLnT(swapped, ln_d0),
                      swapped_t_neg_d0 |-> WelchLnT(swapped, -ln_d0),
                      swapped_ci |-> WelchRatioCi(swapped, alpha),
                      moments |-> <<MomentsLnF1(comp), MomentsLnF2(comp)>>]
    /\ UNCHANGED <<f1_out, f2_out, comp>>
    /\ UNCHANGED <<oneVars, engineVars, pair, calibration, builder, sampleVars>>

CompNext ==
    \/ \E which \in {1, 2}, v \in SampleValues : CompCapture(which, v)
    \/ CompConstruct
    \/ \E name \in StatNames, ln_mu0 \in LnMu0s, alpha \in Alphas : OutStat(name, ln_mu0, alpha)
    \/ \E ln_d0 \in LnD0s, alpha \in Alphas : CompWelch(ln_d0, alpha)

SpecComp == CompInit /\ [][CompNext]_vars

\* C13: Comp::new panics exactly when the two accumulators differ in
\* recording_unit or in reporting_unit; when it succeeds, f1_out() and
\* f2_out() are the two accumulators, every count and sum as it was.
C13_CompNewUnits ==
    comp.outcome # "none" =>
        /\ comp.outcome = "panic" <=>
               \/ f1_out.recording_unit # f2_out.recording_unit
               \/ f1_out.reporting_unit # f2_out.reporting_unit
        /\ comp.outcome = "ok" =>
               F1Out(comp) = f1_out /\ F2Out(comp) = f2_out

C13_Witness ==
    /\ comp.outcome = "panic"
    /\ f1_out.recording_unit = f2_out.recording_unit
    /\ f1_out.reporting_unit # f2_out.reporting_unit
    /\ N(f1_out) = MaxSamples /\ f1_out.n_ln = 1

\* The values a caller can tell from a valid statistic by their type: none of
\* f64, Ci and HypTestResult.
IsOrdinaryValue(v) ==
    \/ DOMAIN v = {"nan", "v", "e"}
    \/ DOMAIN v = {"low", "high"}
    \/ DOMAIN v = {"p", "alpha", "accepted"}

\* C14: a statistic that divides by n or n_ln, called on an accumulator where
\* that count is zero, returns a distinguished `undefined` outcome, not a value
\* of the statistic's ordinary type.
C14_DegenerateSignalsUndefined ==
    (result.call \in StatNames /\ StatCount(f1_out, result.call) = 0) =>
        ~IsOrdinaryValue(result.value)

\* ------------------------------------------------------ calibrate_busy_work

\* x as u32.
AsU32(x) == x % (2 ^ U32Bits)

\* latency_m::<R>: lats holds the latencies of the runs of f, one when R <= 1
\* and R otherwise; comb_sort sorts them in ascending order.
LatencyM(r, lats) ==
    IF r <= 1 THEN lats[1]
    ELSE LET sorted == SortSeq(lats, LAMBDA a, b : DurLe(a, b) /\ a # b)
         IN  IF r % 2 = 1 THEN sorted[r \div 2 + 1]
             ELSE LET m == (AsNanos(sorted[r \div 2]) + AsNanos(sorted[r \div 2 + 1])) \div 2
                  IN  Dur(m \div NanosPerSec, m % NanosPerSec)

\* The arguments the model passes and the latencies busy_work is measured at.
Targets == {DurZero, Dur(0, 1), Dur(0, 500), Dur(0, 20000)}
Efforts == {0, 1, 7, CALIBRATION_EFFORT}
MeasuredLatencies == {DurZero, Dur(0, 1), Dur(0, 3), Dur(0, 1000)}

\* The sequences of n measured latencies.
LatenciesOfRuns(n) == [1..n -> MeasuredLatencies]

\* calibrate_busy_work_x::<R>(target_latency, calibration_effort) is entered.
CalibrateBusyWorkX(r, target_latency, calibration_effort) ==
    /\ calibration.pc = "idle"
    /\ calibration' = [pc |-> "latency_m", r |-> r,
                       target_latency |-> target_latency,
                       calibration_effort |-> calibration_effort]
    /\ UNCHANGED <<oneVars, engineVars, pair, compVars, builder, sampleVars>>

\* calibrate_busy_work(target_latency).
CalibrateBusyWork(target_latency) ==
    /\ calibration.pc = "idle"
    /\ calibration' = [pc |-> "latency_m", r |-> DefaultR,
                       target_latency |-> target_latency,
                       calibration_effort |-> CALIBRATION_EFFORT]
    /\ UNCHANGED <<oneVars, engineVars, pair, compVars, builder, sampleVars>>

\* The body of calibrate_busy_work_x: latency_m measures busy_work, then the
\* effort is the u128 quotient cast to u32; the division panics on a zero
\* divisor.
CalibrateReturn(lats) ==
    /\ calibration.pc = "latency_m"
    /\ Len(lats) = (IF calibration.r <= 1 THEN 1 ELSE calibration.r)
    /\ LET latency == LatencyM(calibration.r, lats)
           product == AsNanos(calibration.target_latency) * calibration.calibration_effort
       IN  calibration' =
               IF AsNanos(latency) = 0
               THEN [calibration EXCEPT !.pc = "panicked"] @@ [latency |-> latency]
               ELSE [calibration EXCEPT !.pc = "returned"]
                    @@ [latency |-> latency,
                        effort |-> AsU32(product \div AsNanos(latency))]
    /\ UNCHANGED <<oneVars, engineVars, pair, compVars, builder, sampleVars>>

CalibrateNext ==
    \/ \E target \in Targets : CalibrateBusyWork(target)
    \/ \E r \in 0..MaxR, target \in Targets, effort \in Efforts :
           CalibrateBusyWorkX(r, target, effort)
    \/ \E n \in 1..MaxR : \E lats \in LatenciesOfRuns(n) : CalibrateReturn(lats)

SpecCalibrate == Init /\ [][CalibrateNext]_vars

\* C15: calibrate_busy_work and calibrate_busy_work_x return no effort count
\* for a zero target_latency.
C15_ZeroTargetRejected ==
    calibration.pc = "returned" => AsNanos(calibration.target_latency) > 0

\* C16: with a measured latency above 0 ns, calibrate_busy_work_x returns
\* exactly floor(target_ns * calibration_effort / measured_ns).
C16_ExactQuotient ==
    (calibration.pc \in {"returned", "panicked"} /\ AsNanos(calibration.latency) > 0) =>
        /\ calibration.pc = "returned"
        /\ calibration.effort =
               (AsNanos(calibration.target_latency) * calibration.calibration_effort)
                   \div AsNanos(calibration.latency)

\* --------------------------------------------------- BenchCfg builder chain

\* let cfg = get_bench_cfg();  sets0 is the number of set calls before it.
BuilderGet ==
    /\ builder.pc = "idle"
    /\ builder' = [pc |-> "building", snapshot |-> BENCH_CFG, value |-> BENCH_CFG,
                   given |-> <<>>, sets0 |-> sets]
    /\ UNCHANGED <<oneVars, engineVars, pair, compVars, calibration, sampleVars>>

\* cfg.with_<field>(v): the owned value changes, BENCH_CFG is not touched.
BuilderWith(field, v) ==
    /\ builder.pc = "building"
    /\ Len(builder.given) < MaxWith
    /\ builder' = [builder EXCEPT !.value = WithField(@, field, v),
                                  !.given = Append(@, <<field, v>>)]
    /\ UNCHANGED <<oneVars, engineVars, pair, compVars, calibration, sampleVars>>

\* A set that stores only the fields given to the with_* calls of the chain.
BuilderSetFieldwise ==
    /\ builder.pc = "building"
    /\ BENCH_CFG' = [f \in DOMAIN BENCH_CFG |->
                        IF \E k \in 1..Len(builder.given) : builder.given[k][1] = f
                        THEN builder.value[f] ELSE BENCH_CFG[f]]
    /\ sets' = sets + 1
    /\ builder' = [builder EXCEPT !.pc = "committed"] @@ [sets1 |-> sets + 1]
    /\ UNCHANGED <<now, pc>>
    /\ UNCHANGED <<oneVars, runVars, pair, compVars, calibration, sampleVars>>

\* .set(): *guard = self, under the lock.
BuilderSet ==
    /\ builder.pc = "building"
    /\ BENCH_CFG' = builder.value
    /\ sets' = sets + 1
    /\ builder' = [builder EXCEPT !.pc = "committed"] @@ [sets1 |-> sets + 1]
    /\ UNCHANGED <<now, pc>>
    /\ UNCHANGED <<oneVars, runVars, pair, compVars, calibration, sampleVars>>

\* The thread's next get_bench_cfg().
BuilderGetNext ==
    /\ builder.pc = "committed"
    /\ builder' = [builder EXCEPT !.pc = "got"] @@ [got |-> BENCH_CFG]
    /\ UNCHANGED <<oneVars, engineVars, pair, compVars, calibration, sampleVars>>

\* One thread's builder chain, with set calls of other threads in between.
CfgNext ==
    \/ \E c \in WithChoices : BenchCfgSet(c[1], c[2])
    \/ BuilderGet
    \/ \E c \in WithChoices : BuilderWith(c[1], c[2])
    \/ BuilderSet
    \/ BuilderGetNext

SpecCfg == Init /\ [][CfgNext]_vars

\* The fields of BenchCfg, and the value the chain of with_* calls gave last to
\* field f (f is among the fields given).
CfgFields ==
    {"warmup_millis", "recording_unit", "reporting_unit", "sigfig",
     "status_calibr", "status_millis"}
GivenFields == {builder.given[k][1] : k \in 1..Len(builder.given)}
LastGiven(f) ==
    LET last == CHOOSE k \in 1..Len(builder.given) :
                    /\ builder.given[k][1] = f
                    /\ \A j \in (k + 1)..Len(builder.given) : builder.given[j][1] # f
    IN  builder.given[last][2]

\* C17: the with_* calls leave the global configuration as it is until set();
\* the committed value, which the next get_bench_cfg returns, holds for each
\* field given to a with_* call the value given last and for every other field
\* the value of the snapshot the chain began from (no other thread's set in
\* between).
C17_BuilderAndCommit ==
    /\ (builder.pc = "building" /\ sets = builder.sets0) =>
           BENCH_CFG = builder.snapshot
    /\ builder.pc \in {"building", "committed", "got"} =>
           \A f \in CfgFields :
               builder.value[f] = IF f \in GivenFields THEN LastGiven(f)
                                  ELSE builder.snapshot[f]
    /\ (builder.pc \in {"committed", "got"} /\ sets = builder.sets1) =>
           BENCH_CFG = builder.value
    /\ (builder.pc = "got" /\ sets = builder.sets1) => builder.got = builder.value

C17_Witness ==
    /\ builder.pc = "got" /\ sets = builder.sets1
    /\ builder.snapshot # BenchCfgDefault
    /\ Cardinality(GivenFields) = 2
    /\ builder.got # builder.snapshot
    /\ \E f \in CfgFields \ GivenFields :
           builder.got[f] = builder.snapshot[f] /\ builder.got[f] # BenchCfgDefault[f]

\* C18: while no set has been performed, BENCH_CFG and what get_bench_cfg
\* returned to the run are warmup_millis 3000, recording_unit Nano,
\* reporting_unit Micro, sigfig 3, status_calibr 3, status_millis 1000, and the
\* accumulator of BenchOut::default carries Nano and Micro.
C18_DefaultsBeforeSet ==
    sets = 0 =>
        LET defaults == [warmup_millis |-> 3000, recording_unit |-> "Nano",
                         reporting_unit |-> "Micro", sigfig |-> 3,
                         status_calibr |-> 3, status_millis |-> 1000]
        IN  /\ BENCH_CFG = defaults
            /\ pc \notin {"idle", "default", "get_cfg"} => cfg = defaults
            /\ pc \notin {"idle", "default"} =>
                   /\ state.recording_unit = "Nano"
                   /\ state.reporting_unit = "Micro"

C18_Witness ==
    /\ sets = 0 /\ pc = "status_freq"
    /\ cfg.warmup_millis = 3000 /\ state.recording_unit = "Nano"

\* ------------------------------------------------------ deterministic_sample

\* u64 arithmetic: the value an operation wraps to, and whether it overflows
\* (a panic with overflow checks, the wrapped value without).
WrapU64(x) == x % (2 ^ U64Bits)
OverflowsU64(x) == x < 0 \/ x >= 2 ^ U64Bits

\* 2 * n * n and 2 * n * n - 1 as u64 expressions: value and overflow.
TwoNN(n) ==
    [v |-> WrapU64(WrapU64(2 * n) * n),
     overflow |-> OverflowsU64(2 * n) \/ OverflowsU64(WrapU64(2 * n) * n)]
UnifLen(n) ==
    [v |-> WrapU64(TwoNN(n).v - 1),
     overflow |-> TwoNN(n).overflow \/ OverflowsU64(TwoNN(n).v - 1)]

\* uniform_observation with left_idx counted from 0.
UniformObservationFromZero(n, idx_i) ==
    LET side == idx_i % 2
        j == idx_i \div 2
        bucket_idx == j % n
        item_idx == j \div n
        left_idx == WrapU64(WrapU64(bucket_idx * n) + item_idx)
        idx == IF side = 0 THEN left_idx ELSE WrapU64(TwoNN(n).v - left_idx)
    IN  [num |-> idx, den |-> TwoNN(n).v]

\* uniform_observation(n, i): the f64 quotient idx / (2 * n * n) as the pair
\* of its numerator and denominator (both exact in f64).
UniformObservation(n, idx_i) ==
    LET side == idx_i % 2
        j == idx_i \div 2
        bucket_idx == j % n
        item_idx == j \div n
        left_idx == WrapU64(WrapU64(WrapU64(bucket_idx * n) + item_idx) + 1)
        idx == IF side = 0 THEN left_idx ELSE WrapU64(TwoNN(n).v - left_idx)
    IN  [num |-> idx, den |-> TwoNN(n).v]

\* The n at which 2 * n * n overflows to 0 (2^32 in the code).
OverflowN == 2 ^ (U64Bits \div 2)

\* deterministic_uniform_sample(n): UnifIter { n, i: 0 }.
DeterministicUniformSample(n) ==
    /\ unif.last = "idle"
    /\ unif' = [n |-> n, i |-> 0, last |-> "new"]
    /\ UNCHANGED items
    /\ UNCHANGED <<oneVars, engineVars, pair, compVars, calibration, builder>>

\* UnifIter::next.  When 2 * n * n - 1 overflows, a build with overflow checks
\* panics and a build without goes on with the wrapped value.
UnifNext(overflow_checks) ==
    /\ unif.last \in {"new", "Some"}
    /\ IF UnifLen(unif.n).overflow /\ overflow_checks
       THEN unif' = [unif EXCEPT !.last = "panic"] /\ UNCHANGED items
       ELSE IF unif.i >= UnifLen(unif.n).v
            THEN unif' = [unif EXCEPT !.last = "None"] /\ UNCHANGED items
            ELSE /\ items' = Append(items, UniformObservation(unif.n, unif.i))
                 /\ unif' = [unif EXCEPT !.i = @ + 1, !.last = "Some"]
    /\ UNCHANGED <<oneVars, engineVars, pair, compVars, calibration, builder>>

SampleNext ==
    \/ \E n \in (1..MaxN) \cup {OverflowN} : DeterministicUniformSample(n)
    \/ \E overflow_checks \in BOOLEAN : UnifNext(overflow_checks)

SpecSample == Init /\ [][SampleNext]_vars

\* What C19 says of the items yielded so far by the iterator for n.
SampleAsClaimed(n) ==
    /\ unif.last # "panic"
    /\ Len(items) = unif.i
    /\ Len(items) <= 2 * n * n - 1
    /\ unif.last = "None" => Len(items) = 2 * n * n - 1
    /\ \A k \in 1..Len(items) :
           /\ items[k].den = 2 * n * n
           /\ items[k].num >= 1 /\ items[k].num <= 2 * n * n - 1
    /\ \A j, k \in 1..Len(items) : j # k => items[j].num # items[k].num
    /\ unif.last = "None" =>
           {items[k].num : k \in 1..Len(items)} = 1..(2 * n * n - 1)

FRecip(p) == [p EXCEPT !.ln = -@]

\* The ratio confidence intervals of the two orders have reciprocal bounds.
ReciprocalCis ==
    /\ result.ci.low = FRecip(result.swapped_ci.high)
    /\ result.ci.high = FRecip(result.swapped_ci.low)

\* C20 as claimed: welch_ln_t of Comp::new(a, b) and of Comp::new(b, a), at
\* the same ln_d0, are negatives of each other, and the welch_ratio_ci of one
\* has the reciprocals of the bounds of the other.
C20_SymmetrySameD0 ==
    result.call = "welch" =>
        /\ result.t = FNeg(result.swapped_t)
        /\ ReciprocalCis

\* C20 amended: welch_ln_t(ln_d0) of Comp::new(a, b) is the negative of
\* welch_ln_t(-ln_d0) of Comp::new(b, a), hence the negative of
\* welch_ln_t(ln_d0) when ln_d0 = 0; the ratio intervals have reciprocal bounds.
C20_SymmetryNegatedD0 ==
    result.call = "welch" =>
        /\ result.t = FNeg(result.swapped_t_neg_d0)
        /\ result.ln_d0 = 0 => result.t = FNeg(result.swapped_t)
        /\ ReciprocalCis

C20_Witness ==
    /\ result.call = "welch" /\ result.ln_d0 # 0
    /\ ~result.t.nan /\ result.t.v # 0
    /\ result.t # FNeg(result.swapped_t)
    /\ ~result.ci.low.nan /\ result.ci.low.ln < 0 /\ result.ci.high.ln > 0
    /\ f1_out.n_ln = 2 /\ f2_out.n_ln = 2 /\ f1_out.sum_ln # f2_out.sum_ln

\* -------------------------------------------------- bench_one_x (bench_one.rs)

\* const WARMUP_INCREMENT_COUNT.
WARMUP_INCREMENT_COUNT == 20

\* Cap on the loop index i of BenchState::warmup of bench_one.rs (the loop
\* `for i in 1..` is unbounded in the code).
MaxBatch == 2

\* Duration::from_nanos, from_micros and from_millis.
FromNanos(x) == Dur(x \div NanosPerSec, x % NanosPerSec)
FromMicrosNoCarry(x) == Dur(0, (x % MicrosPerSec) * NanosPerMicro)
FromMicros(x) == Dur(x \div MicrosPerSec, (x % MicrosPerSec) * NanosPerMicro)
FromMillis(x) == Dur(x \div MillisPerSec, (x % MillisPerSec) * NanosPerMilli)

\* BenchOut::new of the accumulator that bench_one.rs fills.
CollectBenchOutNew ==
    [hist    |-> [sigfig |-> 5, counts |-> EmptyBag],
     sum     |-> 0,
     sum2    |-> 0,
     sum_ln  |-> 0,
     sum2_ln |-> 0]

\* capture_data of that accumulator: the histogram and the four running sums
\* of the data model; a zero adds nothing to the logarithmic sums.
CollectCaptureData(out, elapsed_v) ==
    LET ln == IF elapsed_v > 0 THEN LnMilli(elapsed_v) ELSE 0
    IN  [out EXCEPT !.hist = HistRecord(@, elapsed_v),
                    !.sum = @ + elapsed_v,
                    !.sum2 = @ + elapsed_v * elapsed_v,
                    !.sum_ln = @ + ln,
                    !.sum2_ln = @ + (ln * ln) \div 1000]

\* BenchState::reset of bench_one.rs.
OneReset(out) ==
    [out EXCEPT !.hist = HistReset(@),
                !.sum = 0, !.sum_ln = 0, !.sum2_ln = 0]

\* Durations one invocation of f takes under bench_one_x.
OneLatencies == {DurZero, Dur(0, NanosPerMilli)}

\* Values passed to set_warmup_millis.
WarmupMillisChoices == {0, 30, DefaultWarmupMillis}

\* The comparison made strict: a batch ending exactly on the target goes on.
WarmupReachedStrict(el, warmup_millis) == ~DurLe(el, FromMillis(warmup_millis))

\* elapsed.ge(&Duration::from_millis(warmup_millis))
WarmupReached(el, warmup_millis) == DurLe(FromMillis(warmup_millis), el)

\* set_warmup_millis, by any thread.
SetWarmupMillis(millis) ==
    /\ one.WARMUP_MILLIS # millis
    /\ one' = [one EXCEPT !.WARMUP_MILLIS = millis]
    /\ UNCHANGED <<engineVars, pair, compVars, calibration, builder, sampleVars,
                   capture, conv>>

\* bench_one_x is called: BenchOut::new() and warmup up to its loop.
BenchOneX(u, count) ==
    /\ one.pc = "idle"
    /\ one' = [WARMUP_MILLIS |-> one.WARMUP_MILLIS,
               pc            |-> "warmup",
               unit          |-> u,
               exec_count    |-> count,
               state         |-> CollectBenchOutNew,
               now           |-> DurZero,
               start         |-> DurZero,
               warmup_millis |-> one.WARMUP_MILLIS,
               batch         |-> 1,
               k             |-> 0,
               warmup_status |-> <<>>,
               pre_exec      |-> 0,
               exec_status   |-> <<>>,
               calls         |-> [warmup |-> 0, exec |-> 0]]
    /\ UNCHANGED <<engineVars, pair, compVars, calibration, builder, sampleVars,
                   capture, conv>>

\* One iteration of the loop of execute of bench_one.rs on the call o, up to
\* capture_data.
OneExecuteIter(o, latency) ==
    [o EXCEPT !.k = @ + 1,
              !.now = DurAdd(@, latency),
              !.state = CollectCaptureData(@, LatencyAsU64(o.unit, latency))]

\* One invocation of f by warmup; after the last one of a batch, the rest of
\* the body of the warmup loop: the clock, warmup_status and the test.
OneWarmupCall(latency) ==
    /\ one.pc = "warmup"
    /\ one.batch <= MaxBatch
    /\ LET o1 == [OneExecuteIter(one, latency) EXCEPT !.calls.warmup = @ + 1]
           el == DurationSince(o1.now, o1.start)
           o2 == [o1 EXCEPT !.k = 0,
                            !.warmup_status =
                                Append(@, <<o1.batch, AsMillis(el), o1.warmup_millis>>)]
       IN  one' = IF o1.k < WARMUP_INCREMENT_COUNT THEN o1
                  ELSE IF WarmupReached(el, o1.warmup_millis)
                       THEN [o2 EXCEPT !.pc = "reset"]
                       ELSE [o2 EXCEPT !.batch = @ + 1]
    /\ UNCHANGED <<engineVars, pair, compVars, calibration, builder, sampleVars,
                   capture, conv>>

\* state.reset(); and the measurement call of execute up to its loop.
OneResetState ==
    /\ one.pc = "reset"
    /\ one' = [one EXCEPT !.state = OneReset(@),
                          !.pre_exec = @ + 1,
                          !.k = 0,
                          !.pc = IF one.exec_count = 0 THEN "done" ELSE "execute"]
    /\ UNCHANGED <<engineVars, pair, compVars, calibration, builder, sampleVars,
                   capture, conv>>

\* One iteration of the measurement loop: f, capture_data, exec_status.
OneExecCall(latency) ==
    /\ one.pc = "execute"
    /\ LET o1 == OneExecuteIter(one, latency)
       IN  one' = [o1 EXCEPT !.calls.exec = @ + 1,
                             !.exec_status = Append(@, o1.k),
                             !.pc = IF o1.k = o1.exec_count THEN "done" ELSE "execute"]
    /\ UNCHANGED <<engineVars, pair, compVars, calibration, builder, sampleVars,
                   capture, conv>>

OneNext ==
    \/ \E millis \in WarmupMillisChoices : SetWarmupMillis(millis)
    \/ \E u \in {"Micro"}, count \in {0, MaxExec} : BenchOneX(u, count)
    \/ \E latency \in OneLatencies : OneWarmupCall(latency)
    \/ OneResetState
    \/ \E latency \in OneLatencies : OneExecCall(latency)

SpecOne == Init /\ [][OneNext]_vars

\* The warmup loop of bench_one_x has broken.
OneWarmupOver == one.pc \in {"reset", "execute", "done"}

\* C21: warmup of bench_one_x invokes f in batches of WARMUP_INCREMENT_COUNT;
\* warmup_status has been called once for each whole batch, with the batch
\* index, the milliseconds elapsed since the start of warmup at the end of the
\* batch and the target read at the start; the loop goes on inside a batch
\* whatever the clock says, and breaks after the first batch at whose end
\* elapsed >= target, so the warmup invocations are a positive multiple of
\* WARMUP_INCREMENT_COUNT, also with a target of 0.
C21_WarmupBatches ==
    one.pc # "idle" =>
        LET log == one.warmup_status
            n == Len(log)
        IN  /\ n = one.calls.warmup \div WARMUP_INCREMENT_COUNT
            /\ \A j \in 1..n : log[j][1] = j /\ log[j][3] = one.warmup_millis
            /\ \A j \in 1..(n - 1) : log[j][2] < one.warmup_millis
            /\ one.pc = "warmup" =>
                   /\ one.calls.warmup =
                          WARMUP_INCREMENT_COUNT * (one.batch - 1) + one.k
                   /\ one.k < WARMUP_INCREMENT_COUNT
                   /\ n > 0 => log[n][2] < one.warmup_millis
                   /\ (n > 0 /\ one.k = 0) =>
                          log[n][2] = AsMillis(DurationSince(one.now, one.start))
            /\ OneWarmupOver =>
                   /\ n >= 1
                   /\ one.calls.warmup = WARMUP_INCREMENT_COUNT * n
                   /\ log[n][2] >= one.warmup_millis
            /\ one.pc = "reset" =>
                   log[n][2] = AsMillis(DurationSince(one.now, one.start))

\* A warmup of two batches has ended, the target having been passed in the
\* middle of the second batch.
C21_Witness ==
    /\ one.pc = "done" /\ one.warmup_millis = 30
    /\ Len(one.warmup_status) = 2
    /\ one.warmup_status[2][2] > 30
    /\ one.calls.warmup = 2 * WARMUP_INCREMENT_COUNT

\* C29: after the reset between warmup and measurement every field of the
\* accumulator of bench_one_x is as in a new accumulator, and the accumulator
\* returned holds the measured samples alone: each sum is the sum over the
\* values in its histogram.
C29_ResetRestoresFresh ==
    /\ (one.pc \in {"execute", "done"} /\ one.calls.exec = 0) =>
           one.state = CollectBenchOutNew
    /\ one.pc = "done" =>
           /\ N(one.state) = one.exec_count
           /\ one.state.sum = Total("sum", one.state.hist.counts)
           /\ one.state.sum2 = Total("sum2", one.state.hist.counts)
           /\ one.state.sum_ln = Total("sum_ln", one.state.hist.counts)
           /\ one.state.sum2_ln = Total("sum2_ln", one.state.hist.counts)

\* ------------------------------------------- the moments behind the inference

\* The triple (n_ln, sum_ln, sum2_ln) of an accumulator.
LnTriple(out) == [n |-> out.n_ln, sum |-> out.sum_ln, sum2 |-> out.sum2_ln]

\* C22: a student_ln_* call on an accumulator passes to the statistics
\* functions the moments (n_ln, sum_ln, sum2_ln) of the accumulator, and a
\* welch_ln_* call on Comp::new(&f1_out, &f2_out) those of f1_out and of
\* f2_out, in this order; the count is the number of non-zero samples; the
\* accumulator has no field that keeps moments; and the call changes neither
\* accumulator.
C22_MomentsAtCall ==
    /\ [](/\ DOMAIN f1_out = {"recording_unit", "reporting_unit", "hist", "sum",
                              "sum2", "n_ln", "sum_ln", "sum2_ln"}
          /\ result.call \in StudentNames =>
                 /\ result.moments = LnTriple(f1_out)
                 /\ result.moments.n = N(f1_out) - CopiesIn(0, f1_out.hist.counts)
          /\ result.call = "welch" =>
                 /\ result.moments = <<LnTriple(f1_out), LnTriple(f2_out)>>
                 /\ result.moments[2].n = N(f2_out) - CopiesIn(0, f2_out.hist.counts))
    /\ [][result' # result => (f1_out' = f1_out /\ f2_out' = f2_out)]_vars

\* A Welch call on two accumulators of which the second holds a zero sample.
C22_Witness ==
    /\ result.call = "welch"
    /\ N(f2_out) = MaxSamples /\ f2_out.n_ln = 1 /\ f1_out.n_ln = MaxSamples

\* ------------------------------------------------ capture_data with any u64

\* The u64 values passed to capture_data: small ones, the largest whose square
\* fits, and two whose square does not.
ElapsedValues ==
    {0, 3, 2 ^ (ElapsedBits \div 2) - 1, 2 ^ ((ElapsedBits + 1) \div 2),
     2 ^ ((ElapsedBits + 1) \div 2) + 904}

\* let mut out = BenchOut::new(&c);
CaptureNew(c) ==
    /\ capture.pc = "idle"
    /\ capture' = [pc |-> "new", out |-> BenchOutNew(c), recorded |-> EmptyBag]
    /\ UNCHANGED <<engineVars, pair, compVars, calibration, builder, sampleVars,
                   one, conv>>

\* out.capture_data(elapsed_v) in a build with or without overflow checks;
\* `recorded` is the bag of the values passed so far.
CaptureAny(elapsed_v, overflow_checks) ==
    /\ capture.pc \in {"new", "captured"}
    /\ BagCardinality(capture.recorded) < MaxSamples
    /\ capture' =
           IF overflow_checks /\ PowOverflows(elapsed_v)
           THEN [capture EXCEPT !.pc = "panicked",
                                !.out.hist = HistRecord(@, elapsed_v),
                                !.out.sum = @ + elapsed_v,
                                !.recorded = @ (+) SetToBag({elapsed_v})]
           ELSE [capture EXCEPT !.pc = "captured",
                                !.out = CaptureData(@, elapsed_v),
                                !.recorded = @ (+) SetToBag({elapsed_v})]
    /\ UNCHANGED <<engineVars, pair, compVars, calibration, builder, sampleVars,
                   one, conv>>

CaptureNext ==
    \/ \E c \in CompCfgs : CaptureNew(c)
    \/ \E v \in ElapsedValues, overflow_checks \in BOOLEAN : CaptureAny(v, overflow_checks)

SpecCapture == Init /\ [][CaptureNext]_vars

\* C23: capture_data returns for every u64, and after any sequence of calls
\* sum is the sum of the values passed and sum2 the sum of their squares.
C23_ExactSquares ==
    capture.pc # "idle" =>
        /\ capture.pc # "panicked"
        /\ capture.out.sum = Total("sum", capture.recorded)
        /\ capture.out.sum2 = Total("sum2", capture.recorded)

\* ------------------------------------------------- more on bench_run_x

\* C24: once the probe has completed, the status frequency derived from it is
\* at least 1, and bench_run_x does not fail the precondition of execute.
C24_StatusFreqPositive ==
    pc \in {"warmup", "execute", "get_unit", "loop", "reset", "done", "panicked"} =>
        status_freq >= 1 /\ pc # "panicked"

\* ------------------------------------------- concurrent reconfigurations

\* The step in which the chain's set() stores its value.
Commits == builder.pc = "building" /\ builder'.pc = "committed"

\* C25 as claimed: the set() of a chain leaves every field that the chain did
\* not give to a with_* call as the global configuration holds it, so a value
\* another thread has set to a different field stays.
C25_UpdatesNotLost ==
    [][(Commits /\ GivenFields # {}) =>
          \A f \in CfgFields \ GivenFields : BENCH_CFG'[f] = BENCH_CFG[f]]_vars

\* C25 amended: set() replaces the whole configuration by the chain's value:
\* the fields the chain did not give are as in the snapshot its
\* get_bench_cfg() returned, whatever another thread has set since; they are
\* as the global configuration holds them when no set came between the
\* chain's get and its set.
C25_LastCommitWins ==
    [][Commits =>
          /\ BENCH_CFG' = builder.value
          /\ \A f \in CfgFields \ GivenFields : BENCH_CFG'[f] = builder.snapshot[f]
          /\ sets = builder.sets0 =>
                 \A f \in CfgFields \ GivenFields : BENCH_CFG'[f] = BENCH_CFG[f]]_vars

\* A chain has committed a field after another thread's set came between its
\* get and its set, and the configuration is the chain's snapshot but for the
\* chain's field.
C25_Witness ==
    /\ builder.pc = "committed"
    /\ builder.sets1 = builder.sets0 + 2
    /\ Cardinality(GivenFields) = 1
    /\ BENCH_CFG = builder.value
    /\ \A f \in CfgFields \ GivenFields : BENCH_CFG[f] = builder.snapshot[f]

\* A check of the warmup stopping rule that does not break the loop.
WarmupGoesOn ==
    /\ pc = "loop" /\ phase = "warmup"
    /\ pc' = "loop" /\ i' = i + 1 /\ i' % status_freq = 0

\* C26: when the warmup loop has broken, at iteration i, i is a multiple of
\* status_freq and elapsed + floor(elapsed * status_freq / (2 * i)) >=
\* warmup_millis for the milliseconds elapsed at that check, hence
\* 3 * elapsed >= 2 * warmup_millis; at every check that did not break the
\* loop the condition was false.
C26_WarmupEndsBoundedEarly ==
    /\ [](pc = "reset" =>
              /\ i % status_freq = 0
              /\ elapsed + (elapsed * status_freq) \div (2 * i) >= finish_crit.v
              /\ 3 * elapsed >= 2 * finish_crit.v)
    /\ [][WarmupGoesOn =>
              /\ elapsed' = AsMillis(DurationSince(now', start))
              /\ elapsed' + (elapsed' * status_freq) \div (2 * i') < finish_crit.v]_vars

\* The warmup loop has broken at its third check, after two checks that did
\* not break it.
C26_Witness ==
    /\ pc = "reset" /\ status_freq = 1 /\ i = 3
    /\ finish_crit.v = DefaultWarmupMillis /\ elapsed >= finish_crit.v

\* The step in which the warmup loop breaks.
WarmupBreaks == pc = "loop" /\ phase = "warmup" /\ pc' = "reset"

\* C27: the probe of status_freq invokes f status_calibr times before warmup
\* and captures nothing; each warmup invocation is captured; the warmup loop
\* breaks only after an iteration whose index is a multiple of status_freq, so
\* the warmup invocations are a positive multiple of status_freq, also with
\* warmup_millis = 0.
C27_WarmupWholePeriods ==
    /\ [](/\ pc \in {"warmup", "execute", "get_unit", "loop", "reset", "done", "panicked"} =>
                 calls.probe = cfg.status_calibr
          /\ (pc \in {"warmup", "panicked"} \/ (phase = "warmup" /\ pc \in {"execute", "get_unit"})) =>
                 calls.warmup = 0 /\ N(state) = 0 /\ state.sum = 0
          /\ (phase = "warmup" /\ pc \in {"loop", "reset"}) =>
                 calls.warmup = i /\ N(state) = i
          /\ (pc = "reset" \/ phase = "exec") =>
                 /\ calls.warmup >= status_freq
                 /\ calls.warmup % status_freq = 0)
    /\ [][WarmupBreaks => i' = i + 1 /\ i' % status_freq = 0]_vars

\* A warmup with a target of 0 ms has ended after status_freq = 2 invocations,
\* following a probe of three.
C27_Witness ==
    /\ pc = "reset" /\ finish_crit.v = 0
    /\ status_freq = 2 /\ calls.warmup = 2 /\ calls.probe = 3

\* ------------------------------------------------------------- termination

\* The steps of the thread that runs bench_run_x, once the call is made.
LiveRun ==
    \/ BenchOutDefault
    \/ GetBenchCfg
    \/ \E latency \in ProbeLatencies : CalibrateStatusFreq(latency)
    \/ Warmup
    \/ ExecuteEnter
    \/ ExecuteGetUnit
    \/ \E latency \in Latencies, overhead \in Overheads \ {DurZero} :
           ExecuteIter(latency, overhead)
    \/ ResetState

\* bench_run_x with an f that returns and a clock that advances by a whole
\* second across every invocation; other threads set the configuration.  The
\* set of status_millis is left out: it gives a status_freq above MaxIter, the
\* cap of the loop index.
LiveNext ==
    \/ \E c \in {w \in WithChoices : w[1] # "status_millis"} : BenchCfgSet(c[1], c[2])
    \/ \E count \in 0..MaxExec, status \in BOOLEAN : BenchRunX(count, status)
    \/ LiveRun

\* The thread of the call is scheduled as long as it has a step to take.
SpecLive == Init /\ [][LiveNext]_vars /\ WF_vars(LiveRun)

\* C28: a call of bench_run_x with exec_count >= 1 eventually returns.
C28_RunReturns ==
    (pc = "default" /\ exec_count >= 1) ~> (pc = "done")

\* What holds of the same calls: each returns, with exec_count measured
\* invocations, or panics on entry to warmup with status_freq = 0.
RunReturnsOrPanics ==
    (pc = "default" /\ exec_count >= 1) ~>
        \/ pc = "done" /\ calls.exec = exec_count
        \/ pc = "panicked" /\ status_freq = 0 /\ calls.warmup = 0

\* ------------------------------------------------- LatencyUnit conversions

\* LatencyUnit::latency_from_u64.
LatencyFromU64(u, elapsed_v) ==
    CASE u = "Nano"  -> FromNanos(elapsed_v)
      [] u = "Micro" -> FromMicros(elapsed_v)
      [] u = "Milli" -> FromMillis(elapsed_v)

\* A unit and a u64 to convert to a Duration and back, or a unit and a
\* Duration to convert to a u64 and back.  The u64 values lie around the
\* carries into milliseconds and seconds and at the top of the width; the
\* Durations are fractions and multiples of the units, and for each unit
\* at least one that holds 2^ElapsedBits or more of it.
ConvInit ==
    /\ EngineInit
    /\ pair = PairIdle
    /\ CompIdle
    /\ CalibrationIdle
    /\ BuilderIdle
    /\ SampleIdle
    /\ one = OneIdle
    /\ capture = [pc |-> "idle"]
    /\ conv \in
           [pc : {"elapsed"}, unit : LatencyUnit,
            elapsed : {0, 1, 999, 1000, 1001, 999999, 1000000, 1000001,
                       2 ^ ElapsedBits - 1}]
           \cup
           {[pc |-> "latency", unit |-> u, latency |-> d] :
                u \in LatencyUnit,
                d \in {DurZero, Dur(0, 1), Dur(0, 999), Dur(0, 1500),
                       Dur(0, 999999), Dur(0, NanosPerMilli),
                       Dur(0, NanosPerSec - 1), Dur(1, 0), Dur(1, 1001001)}}
           \cup
           {[pc |-> "latency", unit |-> "Micro", latency |-> Dur(100, 0)],
            [pc |-> "latency", unit |-> "Milli", latency |-> Dur(100000, 1500)]}

\* u.latency_from_u64(..), of the u64 given or of the one converted to.
LatencyFromU64Call ==
    /\ conv.pc \in {"elapsed", "elapsed_of"}
    /\ conv' =
           IF conv.pc = "elapsed"
           THEN [pc |-> "latency_of", unit |-> conv.unit, elapsed |-> conv.elapsed,
                 latency |-> LatencyFromU64(conv.unit, conv.elapsed)]
           ELSE [pc |-> "back_and_there", unit |-> conv.unit,
                 latency |-> conv.latency, elapsed |-> conv.elapsed,
                 back |-> LatencyFromU64(conv.unit, conv.elapsed)]
    /\ UNCHANGED <<engineVars, pair, compVars, calibration, builder, sampleVars,
                   one, capture>>

\* u.latency_as_u64(..), of the Duration given or of the one converted to.
LatencyAsU64Call ==
    /\ conv.pc \in {"latency", "latency_of"}
    /\ conv' =
           IF conv.pc = "latency"
           THEN [pc |-> "elapsed_of", unit |-> conv.unit, latency |-> conv.latency,
                 elapsed |-> LatencyAsU64(conv.unit, conv.latency)]
           ELSE [pc |-> "there_and_back", unit |-> conv.unit,
                 elapsed |-> conv.elapsed, latency |-> conv.latency,
                 back |-> LatencyAsU64(conv.unit, conv.latency)]
    /\ UNCHANGED <<engineVars, pair, compVars, calibration, builder, sampleVars,
                   one, capture>>

ConvNext ==
    \/ LatencyFromU64Call
    \/ LatencyAsU64Call

SpecConv == ConvInit /\ [][ConvNext]_vars

\* The whole units of u in d, before the cast.
UnitsIn(u, d) ==
    CASE u = "Nano"  -> AsNanos(d)
      [] u = "Micro" -> AsMicros(d)
      [] u = "Milli" -> AsMillis(d)

\* b <= d and d - b is shorter than one unit of u.
WithinOneUnitBelow(u, b, d) ==
    /\ DurLe(b, d)
    /\ ~DurLe(LatencyFromU64(u, 1), DurationSince(d, b))

\* A u64 converted to a Duration and back is the same u64.
ElapsedRoundTrip ==
    conv.pc = "there_and_back" => conv.back = conv.elapsed

\* A Duration shorter than one unit is converted to 0, which capture_data
\* counts in n and leaves out of the log sums.
ShortRecordedAsZero ==
    (/\ conv.pc \in {"elapsed_of", "back_and_there"}
     /\ ~DurLe(LatencyFromU64(conv.unit, 1), conv.latency)) =>
        /\ conv.elapsed = 0
        /\ LET out == CaptureData(BenchOutNew(BenchCfgDefault), conv.elapsed)
           IN  N(out) = 1 /\ out.n_ln = 0 /\ out.sum_ln = BenchOutNew(BenchCfgDefault).sum_ln

\* C30 as stated: the u64 round trip is the identity, every Duration comes
\* back at most one unit shorter, and a Duration below one unit is recorded
\* as 0.
C30_RoundTripsEveryDuration ==
    /\ ElapsedRoundTrip
    /\ conv.pc = "back_and_there" =>
           WithinOneUnitBelow(conv.unit, conv.back, conv.latency)
    /\ ShortRecordedAsZero

\* C30: the u64 round trip is the identity; a Duration of fewer than 2^64
\* units comes back at most one unit shorter, a longer one comes back as its
\* count of units modulo 2^64 and so shorter by 2^64 units or more; a
\* Duration below one unit is recorded as 0.
C30_RoundTrips ==
    /\ ElapsedRoundTrip
    /\ conv.pc = "back_and_there" =>
           IF UnitsIn(conv.unit, conv.latency) < 2 ^ ElapsedBits
           THEN WithinOneUnitBelow(conv.unit, conv.back, conv.latency)
           ELSE /\ conv.back =
                       LatencyFromU64(conv.unit,
                           UnitsIn(conv.unit, conv.latency) % (2 ^ ElapsedBits))
                /\ DurLe(LatencyFromU64(conv.unit, 2 ^ ElapsedBits),
                         DurationSince(conv.latency, conv.back))
    /\ ShortRecordedAsZero

\* 1500 ns taken to microseconds and back is 1000 ns.
C30_Witness ==
    /\ conv.pc = "back_and_there"
    /\ conv.unit = "Micro"
    /\ conv.latency = Dur(0, 1500)
    /\ conv.elapsed = 1
    /\ conv.back = Dur(0, 1000)
====
